---- MODULE Spec2Model ----
(***************************************************************************)
(* Model of arangojs src/connection.ts: the Connection class.              *)
(*                                                                         *)
(* The state is the private fields of a Connection plus the calls that     *)
(* have been handed to a host transport and have not completed yet.  Each  *)
(* action is one turn of the JavaScript event loop: the constructor, a     *)
(* public method called by the application, or the completion continuation *)
(* of one transport call, each run to its end (the trailing _runQueue()    *)
(* and a request() made from inside the caller's callback included).       *)
(*                                                                         *)
(* Host indexes are 0-based as in the source: host h is hosts[h + 1].      *)
(***************************************************************************)
EXTENDS Integers, Sequences, FiniteSets, TLC

(***************************************************************************)
(* Bounds of the model.                                                    *)
(***************************************************************************)
NumRequests == 3      \* request() calls in one run
MaxRedirects == 1     \* leader redirects (503 + x-arango-endpoint) in one run
MaxAddCalls == 1      \* addToHostList() calls by the application in one run
MaxUrlsPerCall == 2   \* URLs in one addToHostList() argument

(***************************************************************************)
(* Values.                                                                 *)
(***************************************************************************)
\* An endpoint URL "scheme://rest", kept as its scheme and what follows it.
Url(scheme, rest) == [scheme |-> scheme, rest |-> rest]

RawUrls == { Url("tcp", "a:1"), Url("http", "a:1"), Url("ssl", "b:2"), Url("https", "b:2") }

NoUrl == Url("", "")

\* task.host / the host option when it is undefined
NoHost == -1

TaskIds == 1..NumRequests

\* JavaScript values a request body can be: undefined, a number, a string,
\* an array, or an object with one own property.
Undefined == [type |-> "undefined"]

Num(n) == [type |-> "number", n |-> n]

Str(s) == [type |-> "string", s |-> s]

Arr(elems) == [type |-> "array", elems |-> elems]

Obj(key, val) == [type |-> "object", key |-> key, val |-> val]

\* task.options of a task that is gone
NoOptions == [body |-> Undefined, contentType |-> ""]

\* line 97: maxSockets: 3 (the default); also the fallback of line 102
DefaultMaxSockets == 3

\* agentOptions as given in the config; maxSockets 0 stands for "not given".
AgentOptionsChoices ==
    { [maxSockets |-> 1, keepAlive |-> FALSE],
      [maxSockets |-> 1, keepAlive |-> TRUE],
      [maxSockets |-> 0, keepAlive |-> FALSE] }

Strategies == { "NONE", "ROUND_ROBIN", "ONE_RANDOM" }

\* config.url
ConfigUrlChoices ==
    { << Url("tcp", "a:1") >>,
      << Url("http", "a:1"), Url("ssl", "b:2") >> }

\* Sequences over S of length 1..n
RECURSIVE SeqsUpTo(_, _)
SeqsUpTo(S, n) ==
    IF n = 0 THEN { }
    ELSE LET shorter == SeqsUpTo(S, n - 1)
         IN  { << x >> : x \in S } \cup shorter
             \cup { Append(s, x) : s \in shorter, x \in S }

(***************************************************************************)
(* Host registry: _sanitizeEndpointUrl and addToHostList.                  *)
(***************************************************************************)
_sanitizeEndpointUrl(url) ==
    IF url.scheme = "tcp" THEN [url EXCEPT !.scheme = "http"]
    ELSE IF url.scheme = "ssl" THEN [url EXCEPT !.scheme = "https"]
    ELSE url

\* Array.prototype.indexOf: the first 0-based position of x, or -1
IndexOf(seq, x) ==
    IF \E i \in 1..Len(seq) : seq[i] = x
    THEN (CHOOSE i \in 1..Len(seq) :
              seq[i] = x /\ \A j \in 1..(i - 1) : seq[j] # x) - 1
    ELSE -1

\* The element of a one-element set.  Handlers are written as chains
\* The({ G(y) : y \in { F(x) } }): G works on the value of F(x).
The(S) == CHOOSE x \in S : TRUE

\* createRequest(url, agentOptions, agent): the transport handle bound to url
createRequest(url) == [baseUrl |-> url]

\* line 190
CleanUrls(list) == [i \in 1..Len(list) |-> _sanitizeEndpointUrl(list[i])]

\* lines 195-199: one new transport handle per new URL
NewHosts(newUrls) == [i \in 1..Len(newUrls) |-> createRequest(newUrls[i])]

\* line 200
Indexes(allUrls, list) ==
    [i \in 1..Len(list) |-> IndexOf(allUrls, CleanUrls(list)[i])]

\* line 193: the filter looks at _urls as it is before anything is pushed
NewUrls(curUrls, list) ==
    SelectSeq(CleanUrls(list), LAMBDA url : IndexOf(curUrls, url) = -1)

\* lines 194-199 with unshift for push: new entries go to the front
addToHostListUnshift(curUrls, curHosts, list) ==
    LET newUrls == NewUrls(curUrls, list)
    IN  [ urls  |-> newUrls \o curUrls,
          hosts |-> NewHosts(newUrls) \o curHosts,
          ret   |-> Indexes(newUrls \o curUrls, list) ]

\* addToHostList(urls) on a connection whose lists are curUrls/curHosts:
\* the new lists and the returned indexes
addToHostList(curUrls, curHosts, list) ==
    LET newUrls == NewUrls(curUrls, list)
    IN  [ urls  |-> curUrls \o newUrls,
          hosts |-> curHosts \o NewHosts(newUrls),
          ret   |-> Indexes(curUrls \o newUrls, list) ]

(***************************************************************************)
(* Responses of the host transport and the resolve continuation of         *)
(* request() (lines 284-322).                                              *)
(***************************************************************************)
\* The own properties a decoded JSON object may have.
FieldNames == { "error", "code", "errorMessage", "errorNum", "result" }

\* line 308-311: the four properties of an ArangoDB error body
ErrorFields == { "error", "code", "errorMessage", "errorNum" }

\* A wire body is described by what JSON.parse makes of it:
\*   "empty"   no bytes (length 0)
\*   "garbage" bytes that are not JSON (JSON.parse throws)
\*   "falsy"   JSON text of null, false, 0 or ""
\*   "object"  JSON text of an object with the own properties `fields`
Body(kind, fields) == [kind |-> kind, fields |-> fields]

Bodies ==
    { Body("empty", { }), Body("garbage", { }), Body("falsy", { }) }
    \cup { Body("object", F) : F \in SUBSET FieldNames }

ContentTypes == { "application/json", "text/html", "" }

StatusCodes == { 200, 404, 503 }

\* response.headers["x-arango-endpoint"]: a URL, or NoUrl when absent
LeaderHeaders == { NoUrl, Url("tcp", "a:1"), Url("ssl", "b:2") }

Responses ==
    [ statusCode : StatusCodes, leader : LeaderHeaders,
      contentType : ContentTypes, body : Bodies ]

\* line 16: MIME_JSON = /\/(json|javascript)(\W|$)/
MIME_JSON(contentType) == contentType = "application/json"

\* Values of parsedBody: the decoded JSON value, the body as UTF-8 text, or
\* the raw body (a Buffer).  "thrown" marks the early return of line 297.
Parsed(type, body) == [type |-> type, body |-> body]

\* lines 291-300 without the cb(e) and return of lines 296-298: the text of
\* line 294 goes on to the classification
ParsedBodyTextFallback(res, expectBinary) ==
    IF res.body.kind # "empty" /\ res.contentType # "" /\ MIME_JSON(res.contentType)
    THEN IF res.body.kind \in { "falsy", "object" }
         THEN Parsed("json", res.body)
         ELSE IF ~expectBinary THEN Parsed("text", res.body)
              ELSE Parsed("buffer", res.body)
    ELSE IF ~expectBinary THEN Parsed("text", res.body)
         ELSE Parsed("buffer", res.body)


\* lines 285-305
ParsedBody(res, expectBinary) ==
    IF res.body.kind # "empty" /\ res.contentType # "" /\ MIME_JSON(res.contentType)
    THEN IF res.body.kind \in { "falsy", "object" }
         THEN Parsed("json", res.body)
         ELSE IF ~expectBinary THEN Parsed("thrown", res.body)
              ELSE Parsed("buffer", res.body)
    ELSE IF ~expectBinary THEN Parsed("text", res.body)
         ELSE Parsed("buffer", res.body)

\* JavaScript truthiness of a parsedBody
Truthy(parsed) ==
    \/ parsed.type = "buffer"
    \/ parsed.type = "text" /\ parsed.body.kind # "empty"
    \/ parsed.type = "json" /\ parsed.body.kind = "object"

\* parsedBody.hasOwnProperty(name)
HasOwnProperty(parsed, name) ==
    parsed.type = "json" /\ parsed.body.kind = "object" /\ name \in parsed.body.fields

\* lines 306-321 with the status test first: an error body only counts when
\* the status is below 400
ClassifyStatusFirst(res, parsed) ==
    IF res.statusCode # 0 /\ res.statusCode >= 400
    THEN "HttpError"
    ELSE IF Truthy(parsed) /\ \A f \in ErrorFields : HasOwnProperty(parsed, f)
         THEN "ArangoError"
         ELSE "Success"

\* lines 306-321: which callback call ends resolve, given parsedBody
Classify(res, parsed) ==
    IF Truthy(parsed) /\ \A f \in ErrorFields : HasOwnProperty(parsed, f)
    THEN "ArangoError"
    ELSE IF res.statusCode # 0 /\ res.statusCode >= 400
         THEN "HttpError"
         ELSE "Success"

\* resolve(res): the outcome handed to cb: its kind and the form of the body
resolve(res, expectBinary) ==
    LET parsed == ParsedBody(res, expectBinary)
    IN  IF parsed.type = "thrown"
        THEN [kind |-> "SyntaxError", bodyAs |-> "response"]
        ELSE LET kind == Classify(res, parsed)
             IN  [ kind   |-> kind,
                   bodyAs |-> IF kind = "Success" /\ expectBinary
                              THEN "buffer" ELSE parsed.type ]

\* lines 148-151: the test for a leader redirect
IsLeaderRedirect(res) == res.statusCode = 503 /\ res.leader # NoUrl

(***************************************************************************)
(* The state of a Connection.                                              *)
(***************************************************************************)
VARIABLES
    agentOptions,           \* _agentOptions: maxSockets (0: not given), keepAlive
    loadBalancingStrategy,  \* _loadBalancingStrategy
    useFailOver,            \* _useFailOver
    maxTasks,               \* _maxTasks
    urls,                   \* _urls
    hosts,                  \* _hosts
    activeHost,             \* _activeHost
    activeTasks,            \* _activeTasks
    queue,                  \* _queue: the ids of the queued tasks, oldest first
    taskHost,               \* task.host of every task (NoHost: undefined)
    taskBinary,             \* expectBinary captured by every task's resolve
    taskOptions,            \* task.options of every task: body and content type
    calls,                  \* transport calls issued and not completed: [id, host]
    cbCount,                \* how many times cb was invoked for every request
    hostOptionUsed,         \* some request() so far was given a host option
    sequential,             \* every request() so far was made when all earlier
                            \* requests had received their outcome
    submitted,              \* number of request() calls so far
    redirected,             \* number of leader redirects so far
    added,                  \* number of addToHostList() calls by the application
    ev,                     \* what the last handler did (see Event)
    probe                   \* a response being classified on its own (ClassifySpec)

vars ==
    << agentOptions, loadBalancingStrategy, useFailOver, maxTasks, urls, hosts,
       activeHost, activeTasks, queue, taskHost, taskBinary, taskOptions, calls,
       cbCount, hostOptionUsed, sequential, submitted, redirected, added, ev, probe >>

config == << agentOptions, loadBalancingStrategy, useFailOver, maxTasks >>

\* The record of one handler run:
\*   op         "constructor", "request", "addToHostList", "reject" (transport
\*              error), "redirect" (leader redirect) or "resolve"
\*   id, host   the task and the host of the call that completed
\*   arg, ret   argument and result of the addToHostList call it made
\*   out        what the caller's callback received: "TransportError",
\*              "SyntaxError", "ArangoError", "HttpError" or "Success"; "none"
\*              when the handler did not invoke it
\*   before     _activeHost when the handler started
\*   seen       _activeHost when the branch of lines 137-163 was done, which is
\*              what the caller's callback reads through getActiveHost()
\*   pushed     the tasks queued by request(), in order: task and the host
\*              option it was given
\*   dispatched the calls issued by _runQueue, in order: task, host,
\*              _activeHost just before, and the task.options handed over
Event(op, id, host, before) ==
    [ op |-> op, id |-> id, host |-> host, arg |-> << >>, ret |-> << >>,
      out |-> "none", before |-> before, seen |-> before, pushed |-> << >>,
      dispatched |-> << >> ]

\* `this`, with the record of the handler that is running
Self(op, id, host) ==
    [ urls |-> urls, hosts |-> hosts, activeHost |-> activeHost,
      activeTasks |-> activeTasks, queue |-> queue, taskHost |-> taskHost,
      taskBinary |-> taskBinary, taskOptions |-> taskOptions, calls |-> calls,
      cbCount |-> cbCount,
      hostOptionUsed |-> hostOptionUsed, sequential |-> sequential,
      submitted |-> submitted, redirected |-> redirected,
      ev |-> Event(op, id, host, activeHost) ]

\* The handler is done: its effects become the next state.
Commit(c) ==
    /\ urls' = c.urls
    /\ hosts' = c.hosts
    /\ activeHost' = c.activeHost
    /\ activeTasks' = c.activeTasks
    /\ queue' = c.queue
    /\ taskHost' = c.taskHost
    /\ taskBinary' = c.taskBinary
    /\ taskOptions' = c.taskOptions
    /\ calls' = c.calls
    /\ cbCount' = c.cbCount
    /\ hostOptionUsed' = c.hostOptionUsed
    /\ sequential' = c.sequential
    /\ submitted' = c.submitted
    /\ redirected' = c.redirected
    /\ ev' = c.ev

(***************************************************************************)
(* The constructor (lines 83-119).                                         *)
(***************************************************************************)
\* lines 102-103
MaxTasksOf(options) ==
    LET sockets == IF options.maxSockets # 0 THEN options.maxSockets
                   ELSE DefaultMaxSockets
    IN  IF options.keepAlive THEN sockets * 2 ELSE sockets

\* line 107
UseFailOverOf(strategy) == strategy # "ROUND_ROBIN"

\* lines 114-118: Math.floor(Math.random() * n) is any index of the registry
InitialActiveHosts(strategy, n) ==
    IF strategy = "ONE_RANDOM" THEN 0..(n - 1) ELSE { 0 }

NoProbe == [res |-> [statusCode |-> 0, leader |-> NoUrl, contentType |-> "",
                     body |-> Body("empty", { })],
            expectBinary |-> FALSE, out |-> "idle", bodyAs |-> "none"]

InitConnection ==
    /\ agentOptions \in AgentOptionsChoices
    /\ loadBalancingStrategy \in Strategies
    /\ useFailOver = UseFailOverOf(loadBalancingStrategy)
    /\ maxTasks = MaxTasksOf(agentOptions)
    /\ \E list \in ConfigUrlChoices :
         LET reg == addToHostList(<< >>, << >>, list)
         IN  /\ urls = reg.urls
             /\ hosts = reg.hosts
             /\ activeHost \in InitialActiveHosts(loadBalancingStrategy, Len(reg.hosts))
             /\ ev = [Event("constructor", 0, NoHost, activeHost)
                        EXCEPT !.arg = list, !.ret = reg.ret]
    /\ activeTasks = 0
    /\ queue = << >>
    /\ taskHost = [id \in TaskIds |-> NoHost]
    /\ taskBinary = [id \in TaskIds |-> FALSE]
    /\ taskOptions = [id \in TaskIds |-> NoOptions]
    /\ calls = { }
    /\ cbCount = [id \in TaskIds |-> 0]
    /\ hostOptionUsed = FALSE
    /\ sequential = TRUE
    /\ submitted = 0
    /\ redirected = 0
    /\ added = 0

Init == InitConnection /\ probe = NoProbe

(***************************************************************************)
(* _runQueue (lines 125-166): the part that runs at once.                  *)
(***************************************************************************)
\* lines 128-130 without the test of task.host: always the active host
TargetHostIgnoresPin(c, task) == c.activeHost

\* lines 128-130: the host the task is sent to
TargetHost(c, task) ==
    IF c.taskHost[task] # NoHost THEN c.taskHost[task] ELSE c.activeHost

\* lines 129-133 with the advance on the completion path instead: nothing
\* moves at dispatch
AdvanceActiveHostNever(c, task) == c.activeHost

\* lines 129-133 with the round-robin step taken for pinned tasks as well
AdvanceActiveHostAlways(c, task) ==
    IF loadBalancingStrategy = "ROUND_ROBIN"
    THEN (c.activeHost + 1) % Len(c.hosts)
    ELSE c.activeHost


\* lines 129-133 without the test of the strategy: every unpinned dispatch
\* moves the active host on
AdvanceActiveHostAnyStrategy(c, task) ==
    IF c.taskHost[task] = NoHost
    THEN (c.activeHost + 1) % Len(c.hosts)
    ELSE c.activeHost


\* lines 129-133: _activeHost after the choice of the host
AdvanceActiveHost(c, task) ==
    IF c.taskHost[task] = NoHost /\ loadBalancingStrategy = "ROUND_ROBIN"
    THEN (c.activeHost + 1) % Len(c.hosts)
    ELSE c.activeHost

\* line 126 with `>` for `>=`: one task too many is let through
CanDispatchOffByOne(c) == Len(c.queue) # 0 /\ c.activeTasks <= maxTasks

\* line 126
CanDispatch(c) == Len(c.queue) # 0 /\ c.activeTasks < maxTasks

\* lines 126-135 with pop() for shift(): the task queued last is taken
_runQueuePop(c) ==
    IF ~CanDispatch(c) THEN c
    ELSE LET task == c.queue[Len(c.queue)]
             host == TargetHost(c, task)
         IN  [c EXCEPT
                !.queue = SubSeq(@, 1, Len(@) - 1),
                !.activeHost = AdvanceActiveHost(c, task),
                !.activeTasks = @ + 1,
                !.calls = @ \cup { [id |-> task, host |-> host] },
                !.ev.dispatched =
                    Append(@, [id |-> task, host |-> host,
                               active |-> c.activeHost,
                               options |-> c.taskOptions[task]])]


\* lines 126-135
_runQueue(c) ==
    IF ~CanDispatch(c) THEN c
    ELSE LET task == Head(c.queue)
             host == TargetHost(c, task)
         IN  [c EXCEPT
                !.queue = Tail(@),
                !.activeHost = AdvanceActiveHost(c, task),
                !.activeTasks = @ + 1,
                !.calls = @ \cup { [id |-> task, host |-> host] },
                !.ev.dispatched =
                    Append(@, [id |-> task, host |-> host,
                               active |-> c.activeHost,
                               options |-> c.taskOptions[task]])]

(***************************************************************************)
(* request (lines 230-325).                                                *)
(***************************************************************************)
\* typeof body
TypeOf(v) == IF v.type \in { "array", "object" } THEN "object" ELSE v.type

\* if (body): JavaScript truthiness of a body
TruthyValue(v) ==
    CASE v.type = "undefined" -> FALSE
      [] v.type = "number" -> v.n # 0
      [] v.type = "string" -> v.s # ""
      [] OTHER -> TRUE

\* Array.prototype.join
RECURSIVE Join(_, _)
Join(strs, sep) ==
    IF Len(strs) = 0 THEN ""
    ELSE IF Len(strs) = 1 THEN strs[1]
    ELSE strs[1] \o sep \o Join(Tail(strs), sep)

\* JSON.stringify
RECURSIVE JSONStringify(_)
JSONStringify(v) ==
    CASE v.type = "number" -> ToString(v.n)
      [] v.type = "string" -> "\"" \o v.s \o "\""
      [] v.type = "object" -> "{\"" \o v.key \o "\":" \o JSONStringify(v.val) \o "}"
      [] v.type = "array" ->
           "[" \o Join([i \in 1..Len(v.elems) |-> JSONStringify(v.elems[i])], ",") \o "]"

\* String(body) of a number or a string
String(v) == IF v.type = "number" THEN ToString(v.n) ELSE v.s

\* line 250: body.map(...) of a body that is no array is a TypeError, thrown
\* out of request() before anything is queued
Throws(options) ==
    /\ ~options.isBinary
    /\ TruthyValue(options.body)
    /\ TypeOf(options.body) = "object"
    /\ options.isJsonStream
    /\ options.body.type # "array"

\* line 250: one JSON document per element, joined by CRLF, and a last CRLF
JsonStream(elems) ==
    Join([i \in 1..Len(elems) |-> JSONStringify(elems[i])], "\r\n") \o "\r\n"

\* lines 243-259 where the content type is left at text/plain for every body
EncodedAsText(options) ==
    IF options.isBinary
    THEN [body |-> options.body, contentType |-> "text/plain"]
    ELSE IF TruthyValue(options.body)
    THEN IF TypeOf(options.body) = "object"
         THEN IF options.isJsonStream
              THEN [ body |-> Str(JsonStream(options.body.elems)),
                     contentType |-> "text/plain" ]
              ELSE [ body |-> Str(JSONStringify(options.body)),
                     contentType |-> "text/plain" ]
         ELSE [body |-> Str(String(options.body)), contentType |-> "text/plain"]
    ELSE [body |-> options.body, contentType |-> "text/plain"]

\* lines 243-259: the body and the content type request() makes of its options
Encoded(options) ==
    IF options.isBinary
    THEN [body |-> options.body, contentType |-> "application/octet-stream"]
    ELSE IF TruthyValue(options.body)
    THEN IF TypeOf(options.body) = "object"
         THEN IF options.isJsonStream
              THEN [ body |-> Str(JsonStream(options.body.elems)),
                     contentType |-> "application/x-ldjson" ]
              ELSE [ body |-> Str(JSONStringify(options.body)),
                     contentType |-> "application/json" ]
         ELSE [body |-> Str(String(options.body)), contentType |-> "text/plain"]
    ELSE [body |-> options.body, contentType |-> "text/plain"]

\* lines 261-282: body and content-type header of task.options; an entry
\* "content-type" of the headers option ("": none) replaces the encoder's
TaskOptions(options) ==
    [ body |-> Encoded(options).body,
      contentType |-> IF options.contentTypeHeader # ""
                      THEN options.contentTypeHeader
                      ELSE Encoded(options).contentType ]


\* The options of a request that matter here; all but host and expectBinary
\* at their defaults (lines 232-238), and no content-type among the headers.
Options(host, expectBinary) ==
    [ host |-> host, expectBinary |-> expectBinary, body |-> Undefined,
      isBinary |-> FALSE, isJsonStream |-> FALSE, contentTypeHeader |-> "" ]

\* The ones request() is called with: a plain request, and a binary download
\* addressed to host 0.
RequestOptionChoices == { Options(NoHost, FALSE), Options(0, TRUE) }

\* request without the _runQueue() of line 324: the task is only queued
requestQueueOnly(c, options) ==
    [c EXCEPT
       !.submitted = @ + 1,
       !.queue = Append(@, c.submitted + 1),
       !.taskHost[c.submitted + 1] = options.host,
       !.hostOptionUsed = @ \/ options.host # NoHost,
       !.sequential = @ /\ \A id \in 1..c.submitted : c.cbCount[id] = 1,
       !.taskBinary[c.submitted + 1] = options.expectBinary,
       !.taskOptions[c.submitted + 1] = TaskOptions(options),
       !.ev.pushed = Append(@, [id |-> c.submitted + 1, host |-> options.host])]

\* lines 274-323 with `host` defaulting to the active host: every task is
\* pinned when it is submitted
PushedPinned(c, options) ==
    [c EXCEPT
       !.submitted = @ + 1,
       !.queue = Append(@, c.submitted + 1),
       !.taskHost[c.submitted + 1] =
           IF options.host = NoHost THEN c.activeHost ELSE options.host,
       !.hostOptionUsed = @ \/ options.host # NoHost,
       !.sequential = @ /\ \A id \in 1..c.submitted : c.cbCount[id] = 1,
       !.taskBinary[c.submitted + 1] = options.expectBinary,
       !.taskOptions[c.submitted + 1] = TaskOptions(options),
       !.ev.pushed = Append(@, [id |-> c.submitted + 1, host |-> options.host])]


\* lines 274-323: the new task, with the next id, is pushed on the queue
Pushed(c, options) ==
    [c EXCEPT
       !.submitted = @ + 1,
       !.queue = Append(@, c.submitted + 1),
       !.taskHost[c.submitted + 1] = options.host,
       !.hostOptionUsed = @ \/ options.host # NoHost,
       !.sequential = @ /\ \A id \in 1..c.submitted : c.cbCount[id] = 1,
       !.taskBinary[c.submitted + 1] = options.expectBinary,
       !.taskOptions[c.submitted + 1] = TaskOptions(options),
       !.ev.pushed = Append(@, [id |-> c.submitted + 1, host |-> options.host])]

\* lines 274-324: the task is queued and _runQueue is called
request(c, options) == The({ _runQueue(c1) : c1 \in { Pushed(c, options) } })

\* What the caller's callback does: nothing, or one more request().
NoRequest == [host |-> NoHost, expectBinary |-> FALSE, none |-> TRUE]

CallbackChoices == { NoRequest, [host |-> NoHost, expectBinary |-> FALSE, none |-> FALSE] }

\* cb(err) / cb(null, res) / cb(new ...Error(res)) for task id; nothing
\* refers to the task any more, so its fields are dropped
Callback(c, id, kind, then) ==
    The({ IF then.none \/ c1.submitted >= NumRequests THEN c1
          ELSE request(c1, Options(then.host, then.expectBinary)) :
          c1 \in { [c EXCEPT !.ev.out = kind,
                             !.cbCount[id] = @ + 1,
                             !.taskHost[id] = NoHost,
                             !.taskBinary[id] = FALSE,
                             !.taskOptions[id] = NoOptions] } })

Request ==
    /\ submitted < NumRequests
    /\ \E options \in RequestOptionChoices :
         \E c \in { request(Self("request", submitted + 1, NoHost), options) } :
           Commit(c)
    /\ UNCHANGED << config, added, probe >>

(***************************************************************************)
(* addToHostList called by the application (lines 189-201).                *)
(***************************************************************************)
AddToHostList ==
    /\ added < MaxAddCalls
    /\ \E list \in SeqsUpTo(RawUrls, MaxUrlsPerCall) :
         \E reg \in { addToHostList(urls, hosts, list) } :
           Commit([Self("addToHostList", 0, NoHost) EXCEPT
                     !.urls = reg.urls, !.hosts = reg.hosts,
                     !.ev.arg = list, !.ev.ret = reg.ret])
    /\ added' = added + 1
    /\ UNCHANGED << config, probe >>

(***************************************************************************)
(* The completion continuation of a transport call (lines 135-165).        *)
(***************************************************************************)
\* line 136, and the call is no longer pending
Completed(c, call) ==
    [c EXCEPT !.activeTasks = @ - 1, !.calls = @ \ { call }]

\* lines 138-144 without `this._activeHost === host`
FailOverAlways(c, host) ==
    IF Len(c.hosts) > 1 /\ useFailOver
    THEN (c.activeHost + 1) % Len(c.hosts)
    ELSE c.activeHost

\* lines 138-144 without the `% this._hosts.length`
FailOverNoWrap(c, host) ==
    IF Len(c.hosts) > 1 /\ c.activeHost = host /\ useFailOver
    THEN c.activeHost + 1
    ELSE c.activeHost


\* lines 138-144: _activeHost after a transport error of a call sent to host
FailOver(c, host) ==
    IF Len(c.hosts) > 1 /\ c.activeHost = host /\ useFailOver
    THEN (c.activeHost + 1) % Len(c.hosts)
    ELSE c.activeHost

\* lines 137-145 without the _runQueue() of line 164 on the error path
OnErrorNoRerun(c, call, then) ==
    The({ Callback(c1, call.id, "TransportError", then) :
          c1 \in { [c EXCEPT !.activeTasks = @ - 1, !.calls = @ \ { call }] } })

\* lines 138-144
Failed(c, host) ==
    [c EXCEPT !.activeHost = FailOver(c, host), !.ev.seen = FailOver(c, host)]

\* lines 136-145 and 164
OnError(c, call, then) ==
    The({ _runQueue(c3) :
          c3 \in { Callback(c2, call.id, "TransportError", then) :
                   c2 \in { Failed(c1, call.host) :
                            c1 \in { Completed(c, call) } } } })

\* lines 155-157 without the test: the active host always follows the leader
FollowLeaderAlways(c, host, index) == index


\* lines 155-157: _activeHost after a leader redirect answered by host
FollowLeader(c, host, index) ==
    IF c.activeHost = host THEN index ELSE c.activeHost

\* lines 152-158: the leader is registered, the task pinned and requeued
Requeued(c, call, url) ==
    The({ [c EXCEPT
             !.urls = reg.urls,
             !.hosts = reg.hosts,
             !.taskHost[call.id] = reg.ret[1],
             !.activeHost = FollowLeader(c, call.host, reg.ret[1]),
             !.queue = Append(@, call.id),
             !.redirected = @ + 1,
             !.ev.arg = << url >>,
             !.ev.ret = reg.ret,
             !.ev.seen = FollowLeader(c, call.host, reg.ret[1])] :
          reg \in { addToHostList(c.urls, c.hosts, << url >>) } })

\* lines 152-158 with the redirect also reported to the caller: the 503 is
\* passed to task.reject before the task is requeued
OnRedirectReported(c, call, url) ==
    The({ _runQueue(c3) :
          c3 \in { Requeued(c2, call, url) :
                   c2 \in { Callback(c1, call.id, "HttpError", NoRequest) :
                            c1 \in { Completed(c, call) } } } })

\* lines 136 and 152-158 without the _runQueue() of line 164: the redirected
\* task is queued and nothing is dispatched
OnRedirectNoRerun(c, call, url) ==
    The({ Requeued(c1, call, url) : c1 \in { Completed(c, call) } })


\* lines 136, 152-158 and 164
OnRedirect(c, call, url) ==
    The({ _runQueue(c2) :
          c2 \in { Requeued(c1, call, url) : c1 \in { Completed(c, call) } } })

\* lines 160-161 and 164: response.host = host; task.resolve(response)
OnResolve(c, call, res, then) ==
    The({ _runQueue(c2) :
          c2 \in { Callback(c1, call.id,
                            resolve(res, c1.taskBinary[call.id]).kind, then) :
                   c1 \in { Completed(c, call) } } })

\* The responses the scheduler is run against.
Res(statusCode, leader, body) ==
    [ statusCode |-> statusCode, leader |-> leader,
      contentType |-> "application/json", body |-> body ]

SchedResponses ==
    { Res(200, NoUrl, Body("object", { "result" })),
      Res(200, NoUrl, Body("object", ErrorFields)),
      Res(200, NoUrl, Body("garbage", { })),
      Res(404, NoUrl, Body("empty", { })),
      Res(503, NoUrl, Body("empty", { })),
      Res(503, Url("tcp", "a:1"), Body("empty", { })),
      Res(503, Url("ssl", "b:2"), Body("empty", { })) }

\* The call fails before any response is there: (err, undefined).
TransportErrorOf(call) ==
    /\ call \in calls
    /\ \E then \in CallbackChoices :
         \E c \in { OnError(Self("reject", call.id, call.host), call, then) } :
           Commit(c)
    /\ UNCHANGED << config, added, probe >>

\* The call is answered 503 with the x-arango-endpoint header.
LeaderRedirectOf(call) ==
    /\ call \in calls
    /\ redirected < MaxRedirects
    /\ \E res \in SchedResponses :
         /\ IsLeaderRedirect(res)
         /\ \E c \in { OnRedirect(Self("redirect", call.id, call.host),
                                  call, res.leader) } :
              Commit(c)
    /\ UNCHANGED << config, added, probe >>

\* The call is answered by any other response.
ResponseOf(call) ==
    /\ call \in calls
    /\ \E res \in SchedResponses, then \in CallbackChoices :
         /\ ~IsLeaderRedirect(res)
         /\ \E c \in { OnResolve(Self("resolve", call.id, call.host),
                                 call, res, then) } :
              Commit(c)
    /\ UNCHANGED << config, added, probe >>

TransportError == \E call \in calls : TransportErrorOf(call)

LeaderRedirect == \E call \in calls : LeaderRedirectOf(call)

Response == \E call \in calls : ResponseOf(call)

Next == Request \/ AddToHostList \/ TransportError \/ LeaderRedirect \/ Response

Spec == Init /\ [][Next]_vars

\* The host transport contract: a call that was issued completes, with an
\* error or with a response.  Nothing obliges the application to call
\* request() or addToHostList().
Completion == TransportError \/ LeaderRedirect \/ Response

\* Connections with maxSockets: 1 and no keepAlive, where every task has to
\* wait for the one slot.
FairInit == Init /\ agentOptions.maxSockets = 1 /\ ~agentOptions.keepAlive

FairSpec == FairInit /\ [][Next]_vars /\ WF_vars(Completion)

(***************************************************************************)
(* The response path on its own: one completed response and the            *)
(* expectBinary flag of its task, classified as lines 147-162 and 284-322  *)
(* do.                                                                     *)
(***************************************************************************)
ClassifyInit ==
    /\ InitConnection
    /\ loadBalancingStrategy = "NONE"
    /\ Len(urls) = 1
    /\ agentOptions.maxSockets = 0
    /\ probe \in [ res : Responses, expectBinary : BOOLEAN,
                   out : { "pending" }, bodyAs : { "none" } ]

ClassifyResponse ==
    /\ probe.out = "pending"
    /\ probe' =
         IF IsLeaderRedirect(probe.res)
         THEN [probe EXCEPT !.out = "redirect"]
         ELSE LET out == resolve(probe.res, probe.expectBinary)
              IN  [probe EXCEPT !.out = out.kind, !.bodyAs = out.bodyAs]
    /\ UNCHANGED << config, urls, hosts, activeHost, activeTasks, queue, taskHost,
                    taskBinary, taskOptions, calls, cbCount, hostOptionUsed,
                    sequential,
                    submitted, redirected,
                    added, ev >>

ClassifyNext == ClassifyResponse

ClassifySpec == ClassifyInit /\ [][ClassifyNext]_vars

(***************************************************************************)
(* The request encoder on its own: one request with a body, made on a      *)
(* connection with one slot and followed through its dispatches.           *)
(***************************************************************************)
EncodeBodies ==
    { Undefined, Num(0), Num(7), Str("abc"),
      Arr(<< >>), Arr(<< Obj("a", Num(1)) >>),
      Arr(<< Obj("a", Num(1)), Str("b") >>),
      Obj("a", Num(1)) }

\* request({ body, isBinary, isJsonStream, headers })
EncodeChoices ==
    { [Options(NoHost, FALSE) EXCEPT
         !.body = body, !.isBinary = isBinary, !.isJsonStream = isJsonStream,
         !.contentTypeHeader = header] :
      body \in EncodeBodies, isBinary \in BOOLEAN, isJsonStream \in BOOLEAN,
      header \in { "", "application/xml" } }

EncodeInit ==
    /\ InitConnection
    /\ loadBalancingStrategy = "NONE"
    /\ Len(urls) = 1
    /\ agentOptions.maxSockets = 1
    /\ ~agentOptions.keepAlive
    /\ probe \in [ options : EncodeChoices, out : { "new" }, id : { 0 } ]

\* request(probe.options, cb): the TypeError of line 250 leaves the
\* connection as it is; otherwise the task is queued as by any request()
RequestEncoded ==
    /\ probe.out = "new"
    /\ submitted < NumRequests
    /\ IF Throws(probe.options)
       THEN /\ probe' = [probe EXCEPT !.out = "threw"]
            /\ UNCHANGED << config, urls, hosts, activeHost, activeTasks, queue,
                            taskHost, taskBinary, taskOptions, calls, cbCount,
                            hostOptionUsed, sequential, submitted, redirected,
                            added, ev >>
       ELSE /\ \E c \in { request(Self("request", submitted + 1, NoHost),
                                  probe.options) } :
                 Commit(c)
            /\ probe' = [probe EXCEPT !.out = "queued", !.id = submitted + 1]
            /\ UNCHANGED << config, added >>

EncodeNext == RequestEncoded \/ TransportError \/ LeaderRedirect \/ Response

EncodeSpec == EncodeInit /\ [][EncodeNext]_vars

(***************************************************************************)
(* Properties.                                                             *)
(***************************************************************************)
Min(a, b) == IF a < b THEN a ELSE b

\* The calls in flight to host h
CallsTo(h) == { call \in calls : call.host = h }

\* C1: in every reachable state 0 <= activeTasks <= maxTasks, where maxTasks
\* is maxSockets (3 when not given) times 2 if keepAlive and 1 otherwise, is
\* never changed after construction, and bounds the calls in flight to all
\* hosts together.
C1_ActiveTasksWithinCap ==
    /\ [](/\ 0 <= activeTasks
          /\ activeTasks <= maxTasks
          /\ activeTasks = Cardinality(calls)
          /\ maxTasks = (IF agentOptions.maxSockets = 0 THEN 3
                         ELSE agentOptions.maxSockets)
                        * (IF agentOptions.keepAlive THEN 2 ELSE 1))
    /\ [][maxTasks' = maxTasks /\ agentOptions' = agentOptions]_vars

\* The cap is reached by calls to two different hosts while a task waits.
C1_Witness ==
    /\ activeTasks = maxTasks
    /\ agentOptions.keepAlive
    /\ Len(queue) > 0
    /\ CallsTo(0) # { }
    /\ CallsTo(1) # { }

\* No transport call has completed so far: every completion either invokes
\* the callback or is a leader redirect.
NoCompletionYet == redirected = 0 /\ \A id \in TaskIds : cbCount[id] = 0

CompletionOps == { "reject", "redirect", "resolve" }

\* C2: activeTasks is decremented only by the completion of a transport call;
\* as long as no call has completed, after n request() calls exactly
\* min(n, maxTasks) tasks are in flight and the other n - min(n, maxTasks) are
\* queued.
C2_OnlyCompletionFreesSlot ==
    /\ [](NoCompletionYet =>
            /\ Cardinality(calls) = Min(submitted, maxTasks)
            /\ activeTasks = Min(submitted, maxTasks)
            /\ Len(queue) = submitted - Min(submitted, maxTasks))
    /\ [][activeTasks' < activeTasks => ev'.op \in CompletionOps]_vars

\* Three requests against a cap of 2, nothing completed: 2 in flight, 1 queued.
C2_Witness ==
    /\ NoCompletionYet
    /\ submitted = 3
    /\ maxTasks = 2
    /\ Cardinality(calls) = 2
    /\ Len(queue) = 1

TerminalOutcomes ==
    { "TransportError", "SyntaxError", "ArangoError", "HttpError", "Success" }

\* C3: the callback of a request is invoked at most once, and only by the
\* handler of a completion of that task's call that is a transport error or a
\* response other than a leader redirect; the handler of a leader redirect
\* (503 with x-arango-endpoint) invokes no callback at all.
C3_CallbackAtMostOnce ==
    /\ [](\A id \in TaskIds : cbCount[id] <= 1)
    /\ [][\A id \in TaskIds :
            cbCount'[id] # cbCount[id] =>
              /\ cbCount'[id] = cbCount[id] + 1
              /\ ev'.op \in { "reject", "resolve" }
              /\ ev'.id = id
              /\ [id |-> id, host |-> ev'.host] \in calls
              /\ ev'.out \in TerminalOutcomes
              /\ (ev'.out = "TransportError") = (ev'.op = "reject")]_vars
    /\ [][ev'.op = "redirect" => cbCount' = cbCount /\ ev'.out = "none"]_vars

\* A task was redirected, sent again and has then received its one outcome.
C3_Witness ==
    /\ redirected = 1
    /\ ev.op = "resolve"
    /\ ev.host = 1
    /\ cbCount[ev.id] = 1
    /\ ev.out = "Success"

\* C4: when every transport call that is issued completes and there are
\* finitely many leader redirects, every request that was submitted gets its
\* callback invoked: whenever some request is waiting for its outcome, a
\* moment comes when every request submitted up to then has got its own, so
\* no task stays queued or in flight for ever.
C4_EveryRequestGetsItsOutcome ==
    (\E id \in TaskIds : submitted >= id /\ cbCount[id] = 0)
      ~> (\A id \in TaskIds : submitted >= id => cbCount[id] = 1)

\* A redirected task that waited in the queue behind another one has got
\* its outcome, and nothing is left queued or in flight.
C4_Witness ==
    /\ submitted = NumRequests
    /\ redirected = MaxRedirects
    /\ maxTasks = 1
    /\ \A id \in TaskIds : cbCount[id] = 1
    /\ queue = << >>
    /\ calls = { }

\* Two spellings of one endpoint: tcp:// stands for http://, ssl:// for https://
Secure(url) == url.scheme \in { "ssl", "https" }

SameEndpoint(u, v) == u.rest = v.rest /\ Secure(u) = Secure(v)

HostIndexes == 0..(Len(urls) - 1)

\* C5: no two entries of the registry hold the same normalized URL, and _urls
\* and _hosts have the same length.
C5_RegistryDeduplicated ==
    /\ Len(urls) = Len(hosts)
    /\ \A i, j \in 1..Len(urls) : i # j => urls[i] # urls[j]

\* The least 0-based position of an entry of seq for the endpoint of url, or -1
FirstEntryFor(seq, url) ==
    IF \E i \in 1..Len(seq) : SameEndpoint(seq[i], url)
    THEN (CHOOSE i \in 1..Len(seq) :
              /\ SameEndpoint(seq[i], url)
              /\ \A j \in 1..(i - 1) : ~SameEndpoint(seq[j], url)) - 1
    ELSE -1

IsPrefix(s, t) == Len(s) <= Len(t) /\ \A i \in 1..Len(s) : t[i] = s[i]

\* C6: the registry only grows at its end; an addToHostList call (by the
\* application or for a leader redirect) returns one index per URL given, in
\* the order given, each the index of an entry for that URL's endpoint; for an
\* endpoint registered before the call it is the index that endpoint already
\* had, and a call that names only registered endpoints changes nothing.
C6_RegistryAppendOnlyIdempotent ==
    /\ [][IsPrefix(urls, urls') /\ IsPrefix(hosts, hosts')]_vars
    /\ [][ev'.op \in { "addToHostList", "redirect" } =>
            /\ Len(ev'.ret) = Len(ev'.arg)
            /\ \A i \in 1..Len(ev'.arg) :
                 /\ ev'.ret[i] \in 0..(Len(urls') - 1)
                 /\ SameEndpoint(urls'[ev'.ret[i] + 1], ev'.arg[i])
                 /\ ev'.ret[i] = FirstEntryFor(urls', ev'.arg[i])
                 /\ FirstEntryFor(urls, ev'.arg[i]) # -1 =>
                      ev'.ret[i] = FirstEntryFor(urls, ev'.arg[i])
            /\ (\A i \in 1..Len(ev'.arg) : FirstEntryFor(urls, ev'.arg[i]) # -1) =>
                 urls' = urls /\ hosts' = hosts]_vars

\* tcp://a:1 was registered by the constructor; http://a:1 is registered
\* afterwards: index 0 again, and still one entry.
C6_Witness ==
    /\ ev.op = "addToHostList"
    /\ ev.arg = << Url("http", "a:1") >>
    /\ ev.ret = << 0 >>
    /\ urls = << Url("http", "a:1") >>
    /\ Len(hosts) = 1

InQueue(id) == \E i \in 1..Len(queue) : queue[i] = id

\* C7: after the handler of a 503 answer whose x-arango-endpoint header names
\* u, an entry for u is in the registry at the index i the task is pinned to,
\* and the task is queued again or already sent to host i; a call of a pinned
\* task always goes to the host it is pinned to, whatever the active host is;
\* and the outcome a pinned task delivers is that of its call to that host.
C7_LeaderRedirect ==
    /\ [](ev.op = "redirect" =>
            /\ taskHost[ev.id] \in HostIndexes
            /\ ev.ret = << taskHost[ev.id] >>
            /\ SameEndpoint(urls[taskHost[ev.id] + 1], ev.arg[1])
            /\ urls[taskHost[ev.id] + 1].scheme \in { "http", "https" }
            /\ cbCount[ev.id] = 0
            /\ InQueue(ev.id) # ([id |-> ev.id, host |-> taskHost[ev.id]] \in calls)
            /\ \A call \in calls : call.id = ev.id => call.host = taskHost[ev.id])
    /\ [](\A call \in calls :
            taskHost[call.id] # NoHost => call.host = taskHost[call.id])
    /\ [][ev'.op \in { "reject", "resolve" } /\ taskHost[ev'.id] # NoHost =>
            /\ ev'.host = taskHost[ev'.id]
            /\ cbCount'[ev'.id] = 1
            /\ ev'.out \in TerminalOutcomes]_vars

\* A redirected task has been sent to the leader it is pinned to while the
\* active host is another one.
C7_Witness ==
    /\ ev.op = "redirect"
    /\ ~hostOptionUsed
    /\ [id |-> ev.id, host |-> taskHost[ev.id]] \in calls
    /\ activeHost # taskHost[ev.id]
    /\ ev.host # taskHost[ev.id]

\* C8: when the callback receives a transport error of a call sent to host h,
\* the active host is (h + 1) mod the registry length if the strategy is not
\* ROUND_ROBIN, more than one host is registered and the active host was h;
\* otherwise it is what it was.  The task has got its outcome, the transport
\* error, and is neither queued nor in flight.
C8_FailOver ==
    ev.op = "reject" =>
      /\ ev.seen =
           IF /\ loadBalancingStrategy # "ROUND_ROBIN"
              /\ Len(hosts) > 1
              /\ ev.before = ev.host
           THEN (ev.host + 1) % Len(hosts)
           ELSE ev.before
      /\ loadBalancingStrategy # "ROUND_ROBIN" => activeHost = ev.seen
      /\ ev.out = "TransportError"
      /\ cbCount[ev.id] = 1
      /\ ~InQueue(ev.id)
      /\ \A call \in calls : call.id # ev.id

\* The last host of a two-host registry failed while it was the active one:
\* the active host wraps around to 0.
C8_Witness ==
    /\ ev.op = "reject"
    /\ Len(hosts) = 2
    /\ ev.host = 1
    /\ ev.before = 1
    /\ ev.seen = 0
    /\ activeHost = 0

\* The calls issued by the last handler
Dispatched == { ev.dispatched[i] : i \in 1..Len(ev.dispatched) }

\* Round robin over a registry that has not changed since construction, no
\* leader redirect, requests made one after another.
RoundRobinInSequence ==
    /\ loadBalancingStrategy = "ROUND_ROBIN"
    /\ redirected = 0
    /\ added = 0
    /\ sequential

\* C9 as stated: under ROUND_ROBIN with k hosts and no leader redirect, the
\* n-th of the requests made one after another is sent to host (n - 1) mod k.
C9_AsStated ==
    RoundRobinInSequence =>
      \A d \in Dispatched : d.host = (d.id - 1) % Len(hosts)

\* C9, amended: the same for requests made without a host option.
C9_RoundRobinOrder ==
    RoundRobinInSequence /\ ~hostOptionUsed =>
      \A d \in Dispatched : d.host = (d.id - 1) % Len(hosts)

\* The third request in sequence over two hosts goes to host 0 again.
C9_Witness ==
    /\ RoundRobinInSequence
    /\ ~hostOptionUsed
    /\ Len(hosts) = 2
    /\ ev.op = "request"
    /\ ev.id = 3
    /\ cbCount[1] = 1
    /\ cbCount[2] = 1
    /\ calls = { [id |-> 3, host |-> 0] }

\* The JSON decoder ran on the body of the classified response and succeeded.
ProbeDecoded ==
    /\ probe.res.body.kind \in { "falsy", "object" }
    /\ probe.res.contentType = "application/json"

ProbeHasErrorFields ==
    /\ probe.res.body.kind = "object"
    /\ { "error", "code", "errorMessage", "errorNum" } \subseteq probe.res.body.fields

\* C10: a response that is not a leader redirect and whose body was decoded
\* is an ArangoError if the decoded value has the properties error, code,
\* errorMessage and errorNum, whatever the status; else an HttpError if the
\* status is 400 or more; else a Success.
C10_Classification ==
    probe.out \notin { "idle", "pending", "redirect" } /\ ProbeDecoded =>
      probe.out =
        IF ProbeHasErrorFields THEN "ArangoError"
        ELSE IF probe.res.statusCode >= 400 THEN "HttpError"
        ELSE "Success"

\* Status 200 with an error body that has one more property: an ArangoError.
C10_Witness ==
    /\ probe.out = "ArangoError"
    /\ probe.res.statusCode = 200
    /\ ProbeDecoded
    /\ probe.res.body.fields = FieldNames


\* A response other than a leader redirect has been classified.
ProbeClassified == probe.out \notin { "idle", "pending", "redirect" }

\* The JSON decoder ran on the body of the classified response and threw.
ProbeDecodeFailed ==
    /\ probe.res.body.kind = "garbage"
    /\ probe.res.contentType = "application/json"

\* C11 as stated: when the JSON decoding of a non-empty body with a JSON
\* content type fails, then without expectBinary the body is delivered as
\* text and no decode error reaches the caller, and with expectBinary the
\* caller receives the decode error carrying the response.
C11_AsStated ==
    ProbeClassified /\ ProbeDecodeFailed =>
      IF ~probe.expectBinary
      THEN probe.out # "SyntaxError" /\ probe.bodyAs = "text"
      ELSE probe.out = "SyntaxError" /\ probe.bodyAs = "response"

\* C11, amended: the two cases are the other way round.  Without expectBinary
\* the caller receives the decode error carrying the response; with
\* expectBinary no decode error reaches the caller: the raw body is kept and
\* the classification continues, to an HttpError if the status is 400 or more
\* and to a Success otherwise.
C11_DecodeFailure ==
    ProbeClassified /\ ProbeDecodeFailed =>
      IF ~probe.expectBinary
      THEN probe.out = "SyntaxError" /\ probe.bodyAs = "response"
      ELSE /\ probe.bodyAs = "buffer"
           /\ probe.out = IF probe.res.statusCode >= 400 THEN "HttpError"
                          ELSE "Success"

\* A 404 whose JSON body does not decode, with expectBinary: an HttpError
\* carrying the raw body.
C11_Witness ==
    /\ ProbeDecodeFailed
    /\ probe.expectBinary
    /\ probe.res.statusCode = 404
    /\ probe.out = "HttpError"
    /\ probe.bodyAs = "buffer"


\* The wire forms of the bodies of EncodeBodies, written out.
DocumentText(body) ==
    CASE body = Obj("a", Num(1)) -> "{\"a\":1}"
      [] body = Arr(<< >>) -> "[]"
      [] body = Arr(<< Obj("a", Num(1)) >>) -> "[{\"a\":1}]"
      [] body = Arr(<< Obj("a", Num(1)), Str("b") >>) -> "[{\"a\":1},\"b\"]"

StreamText(body) ==
    CASE body = Arr(<< >>) -> "\r\n"
      [] body = Arr(<< Obj("a", Num(1)) >>) -> "{\"a\":1}\r\n"
      [] body = Arr(<< Obj("a", Num(1)), Str("b") >>) -> "{\"a\":1}\r\n\"b\"\r\n"
      [] OTHER -> "?"

PlainText(body) ==
    CASE body = Num(7) -> "7"
      [] body = Str("abc") -> "abc"

Structured(body) == body.type \in { "array", "object" }

NonEmpty(body) == body \notin { Undefined, Num(0) }

\* What the claim says the encoder makes of the probe's options.
ProbeEncoding ==
    LET o == probe.options
    IN  IF o.isBinary
        THEN [body |-> o.body, contentType |-> "application/octet-stream"]
        ELSE IF Structured(o.body) /\ o.isJsonStream
        THEN [body |-> Str(StreamText(o.body)), contentType |-> "application/x-ldjson"]
        ELSE IF Structured(o.body)
        THEN [body |-> Str(DocumentText(o.body)), contentType |-> "application/json"]
        ELSE [body |-> Str(PlainText(o.body)), contentType |-> "text/plain"]

\* The same, with the content-type entry of the headers option in place of
\* the encoder's when there is one.
ProbeEncodingUnderHeaders ==
    IF probe.options.contentTypeHeader # ""
    THEN [ProbeEncoding EXCEPT !.contentType = probe.options.contentTypeHeader]
    ELSE ProbeEncoding

\* The claim speaks of binary, structured and other non-empty bodies.
ProbeCovered == probe.options.isBinary \/ NonEmpty(probe.options.body)

\* The dispatches of the probe's task by the last handler
ProbeDispatches == { d \in Dispatched : d.id = probe.id }

\* C12 as stated: isBinary gives the body unchanged and
\* application/octet-stream; else a structured body gives with isJsonStream
\* one JSON document per element, each followed by CRLF, and
\* application/x-ldjson, and without it one JSON document and
\* application/json; any other non-empty body gives its text and text/plain.
\* That is what the task holds from its submission on and what every one of
\* its dispatches sends.
C12_AsStated ==
    ProbeCovered =>
      /\ probe.out # "threw"
      /\ probe.out = "queued" =>
           /\ cbCount[probe.id] = 0 => taskOptions[probe.id] = ProbeEncoding
           /\ \A d \in ProbeDispatches : d.options = ProbeEncoding

\* C12, amended: the same, except that with isJsonStream a structured body
\* that is not an array makes request() throw with nothing queued, and that
\* a content-type entry of the caller's headers option is sent in place of
\* the encoder's content type.
C12_RequestEncoding ==
    ProbeCovered =>
      /\ probe.out = "threw" =>
           /\ ~probe.options.isBinary
           /\ probe.options.isJsonStream
           /\ probe.options.body.type = "object"
           /\ submitted = 0 /\ queue = << >> /\ calls = { }
      /\ probe.out = "queued" =>
           /\ ~probe.options.isBinary /\ probe.options.isJsonStream =>
                probe.options.body.type # "object"
           /\ cbCount[probe.id] = 0 =>
                taskOptions[probe.id] = ProbeEncodingUnderHeaders
           /\ \A d \in ProbeDispatches : d.options = ProbeEncodingUnderHeaders

\* A two-element array sent as a JSON stream is dispatched a second time,
\* after a leader redirect, with the same two lines and content type.
C12_Witness ==
    /\ probe.out = "queued"
    /\ ev.op = "redirect"
    /\ ev.id = probe.id
    /\ probe.options.contentTypeHeader = ""
    /\ \E d \in ProbeDispatches :
         /\ d.host = 1
         /\ d.options = [ body |-> Str("{\"a\":1}\r\n\"b\"\r\n"),
                          contentType |-> "application/x-ldjson" ]


\* The tasks the last handler dispatched, in order
DispatchedIds == [i \in 1..Len(ev.dispatched) |-> ev.dispatched[i].id]

\* C13: the queue is first in, first out.  A handler appends what it
\* enqueues (the new task of a request(), or the task of the 503 answer of a
\* leader redirect) at the back and dispatches from the front: the tasks it
\* dispatched, in order, followed by the queue it leaves are the queue it
\* found followed by what it enqueued.  So of two queued tasks the one nearer
\* the front is dispatched first, and a redirected task goes behind every
\* task that was queued when its 503 answer arrived.
C13_QueueIsFifo ==
    /\ [][LET enqueued ==
                IF ev'.op \in { "request", "redirect" } THEN << ev'.id >>
                ELSE IF submitted' > submitted THEN << submitted' >>
                ELSE << >>
          IN  DispatchedIds' \o queue' = queue \o enqueued]_vars
    /\ [][\A i, j \in 1..Len(queue) :
            i < j /\ (\E n \in 1..Len(ev'.dispatched) : DispatchedIds'[n] = queue[j])
              => \E m, n \in 1..Len(ev'.dispatched) :
                   m < n /\ DispatchedIds'[m] = queue[i] /\ DispatchedIds'[n] = queue[j]]_vars
    /\ [][ev'.op = "redirect" =>
            \A i \in 1..Len(queue) :
              \/ \E k \in 1..Len(queue') :
                   /\ queue'[k] = queue[i]
                   /\ \E l \in (k + 1)..Len(queue') : queue'[l] = ev'.id
              \/ /\ DispatchedIds' = << queue[i] >>
                 /\ \E l \in 1..Len(queue') : queue'[l] = ev'.id]_vars

\* Task 1 was answered by a leader redirect while task 2 was queued: task 2,
\* submitted later, has been dispatched and task 1 waits.
C13_Witness ==
    /\ ev.op = "redirect"
    /\ ev.id = 1
    /\ DispatchedIds = << 2 >>
    /\ queue = << 1 >>
    /\ maxTasks = 1


\* _activeHost right after the i-th dispatch of the last handler: what the
\* next dispatch found, or what the handler left
ActiveAfter(i) ==
    IF i < Len(ev.dispatched) THEN ev.dispatched[i + 1].active ELSE activeHost

\* C14 as stated: under ROUND_ROBIN every dispatch moves the active host on
\* by one, modulo the registry length.
C14_AsStated ==
    loadBalancingStrategy = "ROUND_ROBIN" =>
      \A i \in 1..Len(ev.dispatched) :
        ActiveAfter(i) = (ev.dispatched[i].active + 1) % Len(hosts)

\* C14, amended: under ROUND_ROBIN every dispatch of a task without a
\* pinned host moves the active host on by one, modulo the registry length,
\* when the call is issued; the dispatch of a pinned task, and a transport
\* error or a response other than a leader redirect, leave it where it is.
C14_RoundRobinAdvance ==
    /\ [](loadBalancingStrategy = "ROUND_ROBIN" =>
            \A i \in 1..Len(ev.dispatched) :
              /\ [id |-> ev.dispatched[i].id, host |-> ev.dispatched[i].host] \in calls
              /\ ActiveAfter(i) =
                   IF taskHost[ev.dispatched[i].id] = NoHost
                   THEN (ev.dispatched[i].active + 1) % Len(hosts)
                   ELSE ev.dispatched[i].active)
    /\ [][/\ loadBalancingStrategy = "ROUND_ROBIN"
          /\ ev'.op \in { "reject", "resolve" }
          /\ ev'.dispatched = << >>
          => activeHost' = activeHost]_vars
    /\ [][/\ loadBalancingStrategy = "ROUND_ROBIN"
          /\ ev'.op \in { "request", "reject", "resolve" }
          /\ ev'.dispatched # << >>
          => ev'.dispatched[1].active = activeHost]_vars

\* Round robin over two hosts: a task without a pinned host was sent to host
\* 1 and the active host wrapped around to 0, its call still in flight.
C14_Witness ==
    /\ loadBalancingStrategy = "ROUND_ROBIN"
    /\ Len(hosts) = 2
    /\ activeHost = 0
    /\ \E d \in Dispatched :
         /\ d.host = 1
         /\ d.active = 1
         /\ taskHost[d.id] = NoHost
         /\ [id |-> d.id, host |-> 1] \in calls


\* C15: the registry is never empty and the active host is one of its
\* indexes, 0 <= activeHost < number of hosts, in every reachable state and
\* under every strategy; so is the active host the caller's callback reads,
\* and every host a call is sent to.
C15_ActiveHostValid ==
    /\ Len(hosts) >= 1
    /\ activeHost \in 0..(Len(hosts) - 1)
    /\ ev.seen \in 0..(Len(hosts) - 1)
    /\ \A d \in Dispatched : d.active \in 0..(Len(hosts) - 1)

\* ONE_RANDOM over two hosts: two calls have failed, the second one at host
\* 0 while it was the active host, and the active host is now 1.
C15_Witness ==
    /\ loadBalancingStrategy = "ONE_RANDOM"
    /\ Len(hosts) = 2
    /\ ev.op = "reject"
    /\ ev.before = 0
    /\ ev.host = 0
    /\ activeHost = 1
    /\ cbCount[1] = 1
    /\ cbCount[2] = 1


\* C16: under NONE and ONE_RANDOM a handler that changes the active host is
\* the handler of a transport error or of a leader redirect; a request(),
\* an addToHostList() and the handler of any other response, with the
\* dispatches they make, leave it as it is.
C16_ActiveHostFrame ==
    /\ [][(/\ loadBalancingStrategy \in { "NONE", "ONE_RANDOM" }
           /\ activeHost' # activeHost)
          => ev'.op \in { "reject", "redirect" }]_vars
    /\ [][(/\ loadBalancingStrategy \in { "NONE", "ONE_RANDOM" }
           /\ \/ ev'.op \in { "request", "addToHostList" }
              \/ ev'.out \in { "Success", "ArangoError", "HttpError", "SyntaxError" })
          => /\ activeHost' = activeHost
             /\ ev'.seen = activeHost
             /\ \A i \in 1..Len(ev'.dispatched) :
                  ev'.dispatched[i].active = activeHost]_vars

\* NONE over two hosts, the active host moved to 1 by an earlier failover:
\* an ArangoError comes back from host 0, the next task is dispatched, and
\* the active host is still 1.
C16_Witness ==
    /\ loadBalancingStrategy = "NONE"
    /\ Len(hosts) = 2
    /\ ev.op = "resolve"
    /\ ev.out = "ArangoError"
    /\ ev.host = 0
    /\ ev.dispatched # << >>
    /\ ev.before = 1
    /\ activeHost = 1


\* C17: when the handler of a leader redirect answered by host h has
\* registered the named URL, at index i, and pinned the task to i, the active
\* host is i if it was h when the answer arrived and else what it was; that
\* is where the dispatch that follows starts from, and where the active host
\* stays unless the strategy is ROUND_ROBIN.  No other task is pinned or
\* unpinned by it.
C17_FollowLeader ==
    /\ [](ev.op = "redirect" =>
            /\ Len(ev.ret) = 1
            /\ taskHost[ev.id] = ev.ret[1]
            /\ ev.seen = IF ev.before = ev.host THEN ev.ret[1] ELSE ev.before
            /\ ev.dispatched # << >> => ev.dispatched[1].active = ev.seen
            /\ loadBalancingStrategy # "ROUND_ROBIN" => activeHost = ev.seen)
    /\ [][ev'.op = "redirect" =>
            /\ ev'.before = activeHost
            /\ \A id \in TaskIds \ { ev'.id } : taskHost'[id] = taskHost[id]]_vars

\* Host 0 answers with a redirect to itself after the active host has moved
\* on to 1: the task is pinned to 0 and the active host stays 1.
C17_Witness ==
    /\ ev.op = "redirect"
    /\ ev.host = 0
    /\ ev.before = 1
    /\ ev.ret = << 0 >>
    /\ taskHost[ev.id] = 0
    /\ activeHost = 1
    /\ loadBalancingStrategy = "NONE"


\* C18: when a handler has finished (a request(), or the handler of a
\* completion, whether it requeues a redirected task or its callback makes a
\* new request), the queue is empty or the cap is reached: no task waits
\* while a slot is free.
C18_WorkConserving ==
    Len(queue) > 0 => activeTasks = maxTasks

\* One slot: task 1 comes back, its callback submits task 3 behind the
\* queued task 2; task 2 has taken the slot and task 3 waits.
C18_Witness ==
    /\ ev.op = "resolve"
    /\ ev.id = 1
    /\ DispatchedIds = << 2 >>
    /\ queue = << 3 >>
    /\ activeTasks = 1
    /\ maxTasks = 1


\* C19 as stated: no task is pinned before a leader redirect occurs for it,
\* so as long as no leader redirect has occurred no task is pinned and every
\* task is dispatched to the host that is the active one at that moment.
C19_AsStated ==
    redirected = 0 =>
      /\ \A id \in TaskIds : taskHost[id] = NoHost
      /\ \A d \in Dispatched : d.host = d.active

\* C19, amended: a task is pinned at submission to what the host option of
\* its request names, and not pinned when there is none; afterwards only a
\* leader redirect for that task changes its pinned host.  Every task that
\* is not pinned is dispatched to the host that is the active one at that
\* moment, and every pinned task to the host it is pinned to.
C19_PinnedByOptionOrRedirect ==
    /\ [][\A i \in 1..Len(ev'.pushed) :
            /\ ev'.pushed[i].id > submitted
            /\ taskHost'[ev'.pushed[i].id] = ev'.pushed[i].host]_vars
    /\ [][\A id \in 1..submitted :
            taskHost'[id] # taskHost[id] =>
              \/ ev'.op = "redirect" /\ ev'.id = id /\ taskHost'[id] = ev'.ret[1]
              \/ cbCount'[id] = 1 /\ cbCount[id] = 0 /\ taskHost'[id] = NoHost]_vars
    /\ [](\A d \in Dispatched :
            d.host = IF taskHost[d.id] = NoHost THEN d.active ELSE taskHost[d.id])
    /\ [](~hostOptionUsed /\ redirected = 0 =>
            /\ \A id \in TaskIds : taskHost[id] = NoHost
            /\ \A d \in Dispatched : d.host = d.active)

\* After the leader redirect of another task moved the active host to 1, a
\* task submitted without a host option is dispatched, unpinned, to host 1.
C19_Witness ==
    /\ redirected = 1
    /\ ~hostOptionUsed
    /\ ev.op \in { "request", "resolve" }
    /\ \E d \in Dispatched :
         /\ taskHost[d.id] = NoHost
         /\ d.active = 1
         /\ d.host = 1
         /\ [id |-> d.id, host |-> 1] \in calls


\* C20: with failover enabled and two or more hosts, when a call to host h
\* has failed and the active host has moved on from h to (h + 1) mod the
\* registry length, the failure of another call to h that was in flight at
\* the same time, coming next, leaves the active host there: the calls to h
\* that fail together move the active host once, not once each.
C20_FailOverOnce ==
    [][(/\ useFailOver
        /\ Len(hosts) >= 2
        /\ ev.op = "reject"
        /\ activeHost = (ev.host + 1) % Len(hosts)
        /\ ev'.op = "reject"
        /\ ev'.host = ev.host
        /\ \A d \in Dispatched : d.id # ev'.id)
       => /\ ev'.before = activeHost
          /\ ev'.seen = activeHost
          /\ activeHost' = (ev.host + 1) % Len(hosts)
          /\ Len(hosts') = Len(hosts)]_vars

\* The three slots were taken by three calls to host 0, the active host of
\* two; all three have failed one after another and the active host is 1,
\* not 0 again.
C20_Witness ==
    /\ loadBalancingStrategy = "NONE"
    /\ Len(hosts) = 2
    /\ maxTasks = 3
    /\ added = 0
    /\ redirected = 0
    /\ ~hostOptionUsed
    /\ submitted = 3
    /\ \A id \in TaskIds : cbCount[id] = 1
    /\ ev.op = "reject"
    /\ ev.host = 0
    /\ ev.before = 1
    /\ ev.pushed = << >>
    /\ activeHost = 1

====
